---------------------------- MODULE Spec2Model ----------------------------
(***************************************************************************)
(* A model of the MacroPad firmware in src/code.py: the NeoKey1x4          *)
(* connection manager, the button debouncer, the display/LED sleep         *)
(* manager, the macro interpreter and the main loop.                       *)
(***************************************************************************)
EXTENDS Integers, Sequences, FiniteSets, TLC

VARIABLES
    now,            \* time.time(): whole seconds
    busUp,          \* the NeoKey answers on the I2C bus
    nk,             \* the NeoKeyManager object
    connects,       \* times of the last two NeoKey1x4(...) constructions
    raised,         \* an exception left a NeoKeyManager method
    call,           \* the last method call: its name, the state it was
                    \* entered in, the bus outcome it met, what it returned
    streak,         \* bulk reads that failed in a row since the last good
                    \* read or the last connection
    neokey_debouncers,  \* the four Debouncer objects
    raws,           \* the key lists handed to their update(), oldest first
    display_manager,    \* the DisplayManager object
    macropad,       \* the MacroPad: display_sleep, pixels.brightness, and
                    \* what its HID devices hold down
    activity_time,  \* the main loop's timestamp of the last activity
    power_log,      \* the last changes the DisplayManager made
    pc,             \* where the main loop stands
    apps,           \* the list load_apps returned
    app_index,
    last_position,  \* <<>> for None, <<p>> for the position p
    last_encoder_switch,
    title,          \* group[13].text: the name shown, with " [!]" or not
    pending,        \* key_number and pressed, on the way to the interpreter
    held,           \* for each key, the index of the app whose macro its
                    \* press has run, -1 once its release has run
    ran,            \* the macro the interpreter has just run, and the state
                    \* it was entered in
    encoder,        \* macropad.encoder, the dial's position
    encoder_switch, \* what encoder_switch_debounced.pressed reads
    neokey_held,    \* the NeoKey buttons as they are physically held
    events,         \* macropad.keys.events, the queue of key events
    keys_down,      \* the grid keys that are physically down
    presses         \* key presses made so far

nkVars == <<now, busUp, nk, connects, raised, call, streak>>
debVars == <<neokey_debouncers, raws>>
powerVars == <<display_manager, macropad, activity_time, power_log>>
loopVars == <<pc, apps, app_index, last_position, last_encoder_switch, title,
              pending, held, ran>>
inputVars == <<encoder, encoder_switch, neokey_held, events, keys_down, presses>>
vars == <<now, busUp, nk, connects, raised, call, streak,
          neokey_debouncers, raws,
          display_manager, macropad, activity_time, power_log,
          pc, apps, app_index, last_position, last_encoder_switch, title,
          pending, held, ran, encoder, encoder_switch, neokey_held, events,
          keys_down, presses>>

(***************************************************************************)
(* Bounds of the model.                                                    *)
(***************************************************************************)
\* time.time() at power-up: seconds since the epoch, far more than any
\* interval of the program
BootTime == 1000
\* seconds of clock modelled in the component specifications
MaxTime == 6
\* update() calls followed on one Debouncer
MaxUpdates == 5
\* single seconds of clock modelled around one sleep timeout
MaxIdle == 2
\* sleep timeouts of clock modelled in the program
MaxSleeps == 1
\* how far the dial is turned either way
MaxTurn == 1
\* key presses made
MaxPresses == 1
\* key events waiting in the queue
MaxQueue == 1
\* items of a macro sequence given to the interpreter on its own
MaxItems == 2

(***************************************************************************)
(* Configurables (src/code.py:39-48).                                      *)
(***************************************************************************)
NEOKEY_RECONNECT_INTERVAL == 5
SLEEP_TIME == 60 * 60
NEOKEY1X4_NUM_KEYS == 4
\* get_keys() marks the manager disconnected at this many failed reads
FAILED_READS_LIMIT == 3

(***************************************************************************)
(* Python floats.  Every brightness the program computes is 0.1 added or   *)
(* subtracted some number of times, clamped to [0.0, 1.0].  A double x is  *)
(* held exactly as the pair [k, e] with x * 2^56 = k * T + e, where        *)
(* T = 7205759403792794 is the double 0.1 in units of 2^-56.  T itself     *)
(* never appears: rounding a sum to the 53-bit significand needs only      *)
(* T mod 32 and the binade of the sum, and 2^55 = 5T - 2, 2^56 = 10T - 4.  *)
(* The one other double of the program is INITIAL_BRIGHTNESS * 0.1 =       *)
(* 0.010000000000000002 = H * 2^-56, the brightness the NeoKeyManager is   *)
(* built with; it is only stored, copied and compared.  In full a double   *)
(* is [k, h, e] with x * 2^56 = k * T + h * H + e, and e << H << T.        *)
(***************************************************************************)
TenthMod32 == 26

Float(k, e) == [k |-> k, h |-> 0, e |-> e]
F_0_0 == Float(0, 0)
F_0_1 == Float(1, 0)
F_1_0 == Float(10, -4)

FloatLess(a, b) ==
    \/ a.k < b.k
    \/ a.k = b.k /\ a.h < b.h
    \/ a.k = b.k /\ a.h = b.h /\ a.e < b.e

\* units of 2^-56 in one unit in the last place of the double k*T + e
FloatUlp(k, e) ==
    CASE k <= 1 -> 1
      [] k = 2 -> 2
      [] k \in {3, 4} -> 4
      [] k = 5 -> IF e >= -2 THEN 8 ELSE 4
      [] k \in 6..9 -> 8
      [] k = 10 -> IF e >= -4 THEN 16 ELSE 8
      [] OTHER -> 16

\* round-to-nearest, ties-to-even, of the exact value k*T + e
FloatRound(k, e) ==
    LET U == FloatUlp(k, e)
        r == (k * TenthMod32 + e) % U
        q == (k * TenthMod32 + e) % (2 * U)
        downOdd == ((q - r) \div U) % 2 = 1
    IN  IF r = 0 THEN Float(k, e)
        ELSE IF 2 * r < U \/ (2 * r = U /\ ~downOdd) THEN Float(k, e - r)
        ELSE Float(k, e - r + U)

\* x + d * 0.1 for d in {1, -1}, as the double the addition yields
FloatAddTenths(x, d) == FloatRound(x.k + d, x.e)

FloatMax(a, b) == IF FloatLess(a, b) THEN b ELSE a
FloatMin(a, b) == IF FloatLess(b, a) THEN b ELSE a

\* INITIAL_BRIGHTNESS * 0.1
F_0_01 == [k |-> 0, h |-> 1, e |-> 0]

(***************************************************************************)
(* The I2C bus.  A transaction with the NeoKey succeeds while the device   *)
(* answers and otherwise fails with one of the errors the drivers raise.   *)
(***************************************************************************)
TransportErrors == {"OSError", "RuntimeError", "ValueError"}
BusOutcomes == IF busUp THEN {"ok"} ELSE TransportErrors

Keys(a, b, c, d) == <<a, b, c, d>>
AllFalse == Keys(FALSE, FALSE, FALSE, FALSE)
\* what a bulk read of the four buttons may find
KeyPatterns ==
    { AllFalse,
      Keys(TRUE, FALSE, FALSE, FALSE),
      Keys(FALSE, TRUE, FALSE, TRUE) }

COLOR_PRESSED == 8388736    \* 0x800080
NoPixels == [i \in 0..(NEOKEY1X4_NUM_KEYS - 1) |-> 0]

(***************************************************************************)
(* class NeoKeyManager.  A method takes and returns the record             *)
(*   [nk, connects, raised, ret]                                           *)
(* nk the object, connects the log of NeoKey1x4(...) constructions (the    *)
(* connection attempts seen on the bus), raised whether an exception has   *)
(* left a method (or, further on, the interpreter of macros: an exception  *)
(* nothing catches ends the program), ret the keys get_keys returned.      *)
(* nk.device is [present, brightness, pixels]: None or a NeoKey1x4 with    *)
(* its pixels' brightness and colours.                                     *)
(***************************************************************************)
NoDevice == [present |-> FALSE, brightness |-> F_0_0, pixels |-> NoPixels]
NewDevice(brightness) ==
    [present |-> TRUE, brightness |-> brightness, pixels |-> NoPixels]

\* (a handler that names OSError alone)
Caught_OSErrorOnly(err) == err = "OSError"

\* the except clauses of the class all name the same three exceptions
Caught(err) == err \in {"OSError", "RuntimeError", "ValueError"}

LogConnect(log, t) ==
    IF Len(log) < 2 THEN Append(log, t) ELSE <<log[2], t>>

\* (a connection that leaves _failed_reads as it finds it)
NeoKeyManager_connect_KeepsCount(m, res, t) ==
    LET tried == [m EXCEPT !.connects = LogConnect(m.connects, t)]
    IN  IF res = "ok"
        THEN [tried EXCEPT !.nk.device = NewDevice(m.nk.brightness),
                           !.nk.is_connected = TRUE]
        ELSE [tried EXCEPT !.nk.is_connected = FALSE,
                           !.nk.device = NoDevice]

NeoKeyManager_connect(m, res, t) ==
    LET tried == [m EXCEPT !.connects = LogConnect(m.connects, t)]
    IN  IF res = "ok"
        THEN [tried EXCEPT !.nk.device = NewDevice(m.nk.brightness),
                           !.nk.is_connected = TRUE,
                           !.nk.failed_reads = 0]
        ELSE IF Caught(res)
        THEN [tried EXCEPT !.nk.is_connected = FALSE,
                           !.nk.device = NoDevice]
        ELSE [tried EXCEPT !.raised = TRUE]

NeoKeyManager_init(brightness, res, t) ==
    NeoKeyManager_connect(
        [nk |-> [brightness |-> brightness,
                 device |-> NoDevice,
                 is_connected |-> FALSE,
                 last_reconnect |-> 0,
                 failed_reads |-> 0],
         connects |-> <<>>,
         raised |-> FALSE,
         ret |-> AllFalse],
        res, t)

\* (a reconnection that is tried once and given up after it fails)
NeoKeyManager_try_reconnect_Once(m, res, t) ==
    IF m.nk.last_reconnect = 0 /\ t - m.nk.last_reconnect >= NEOKEY_RECONNECT_INTERVAL
    THEN NeoKeyManager_connect([m EXCEPT !.nk.last_reconnect = t], res, t)
    ELSE m

NeoKeyManager_try_reconnect(m, res, t) ==
    IF t - m.nk.last_reconnect >= NEOKEY_RECONNECT_INTERVAL
    THEN NeoKeyManager_connect([m EXCEPT !.nk.last_reconnect = t], res, t)
    ELSE m

\* (a get_keys whose good read leaves _failed_reads as it finds it)
NeoKeyManager_get_keys_NoReset(m, res, t, raw) ==
    IF ~m.nk.is_connected
    THEN [NeoKeyManager_try_reconnect(m, res, t) EXCEPT !.ret = AllFalse]
    ELSE IF res = "ok"
    THEN [m EXCEPT !.ret = raw]
    ELSE LET failed == m.nk.failed_reads + 1
         IN  [m EXCEPT !.nk.failed_reads = failed,
                       !.nk.is_connected =
                           IF failed >= FAILED_READS_LIMIT
                           THEN FALSE ELSE m.nk.is_connected,
                       !.ret = AllFalse]

\* raw: the buttons as the bulk read finds them when it succeeds
NeoKeyManager_get_keys(m, res, t, raw) ==
    IF ~m.nk.is_connected
    THEN [NeoKeyManager_try_reconnect(m, res, t) EXCEPT !.ret = AllFalse]
    ELSE IF res = "ok"
    THEN [m EXCEPT !.nk.failed_reads = 0, !.ret = raw]
    ELSE IF Caught(res)
    THEN LET failed == m.nk.failed_reads + 1
         IN  [m EXCEPT !.nk.failed_reads = failed,
                       !.nk.is_connected =
                           IF failed >= FAILED_READS_LIMIT
                           THEN FALSE ELSE m.nk.is_connected,
                       !.ret = AllFalse]
    ELSE [m EXCEPT !.raised = TRUE]

NeoKeyManager_set_pixel(m, res, index, color) ==
    IF ~m.nk.is_connected \/ ~m.nk.device.present
    THEN m
    ELSE IF res = "ok"
    THEN [m EXCEPT !.nk.device.pixels[index] = color]
    ELSE IF Caught(res) THEN m
    ELSE [m EXCEPT !.raised = TRUE]

\* (a set_brightness whose failed write marks the manager disconnected)
NeoKeyManager_set_brightness_Disconnects(m, res, brightness) ==
    LET stored == [m EXCEPT !.nk.brightness = brightness]
    IN  IF m.nk.is_connected /\ m.nk.device.present
        THEN IF res = "ok"
             THEN [stored EXCEPT !.nk.device.brightness = brightness]
             ELSE [stored EXCEPT !.nk.is_connected = FALSE]
        ELSE stored

NeoKeyManager_set_brightness(m, res, brightness) ==
    LET stored == [m EXCEPT !.nk.brightness = brightness]
    IN  IF m.nk.is_connected /\ m.nk.device.present
        THEN IF res = "ok"
             THEN [stored EXCEPT !.nk.device.brightness = brightness]
             ELSE IF Caught(res) THEN stored
             ELSE [stored EXCEPT !.raised = TRUE]
        ELSE stored

(***************************************************************************)
(* class Debouncer: [state, last_state].                                   *)
(***************************************************************************)
Debouncer_init == [state |-> FALSE, last_state |-> FALSE]

\* (an update that forgets to shift state into last_state)
Debouncer_update_NoShift(d, new_state) == [d EXCEPT !.state = new_state]

Debouncer_update(d, new_state) ==
    [state |-> new_state, last_state |-> d.state]

Debouncer_is_pressed(d) == d.state /\ ~d.last_state

(***************************************************************************)
(* class DisplayManager: [brightness, is_asleep].  Its methods work on the *)
(* MacroPad and the NeoKeyManager too, so they take and return the record  *)
(*   [display_manager, macropad, m, debouncers, now, log]                  *)
(* m the NeoKeyManager record above, debouncers the four Debouncers, now   *)
(* the clock, log the power_log:                                           *)
(* the names of the last two changes made (sleep, wake, adjust), the       *)
(* brightnesses in effect when the display last went to sleep, the last    *)
(* adjustment with the brightness it started from, hid, the calls made on  *)
(* the HID devices, in order, and by, the function that made them.         *)
(* res is the outcome of the bus transactions the call makes.              *)
(***************************************************************************)
LogOp(log, op) ==
    [log EXCEPT !.ops = IF Len(@) < 2 THEN Append(@, op) ELSE <<@[2], op>>]

\* (a wake that restores the brightness the program starts with)
DisplayManager_wake_display_Default(w, res) ==
    IF w.display_manager.is_asleep
    THEN [w EXCEPT !.macropad.display_sleep = FALSE,
                   !.macropad.pixels_brightness = F_0_1,
                   !.display_manager.is_asleep = FALSE,
                   !.log = LogOp(w.log, "wake")]
    ELSE w

\* returns time.time(), which the callers read as w.now
DisplayManager_wake_display(w, res) ==
    IF w.display_manager.is_asleep
    THEN LET lit == NeoKeyManager_set_brightness(
                        w.m, res, w.display_manager.brightness)
             m2 == IF ~lit.nk.is_connected
                   THEN NeoKeyManager_try_reconnect(lit, res, w.now)
                   ELSE lit
         IN  [w EXCEPT !.macropad.display_sleep = FALSE,
                       !.macropad.pixels_brightness = w.display_manager.brightness,
                       !.display_manager.is_asleep = FALSE,
                       !.m = m2,
                       !.log = LogOp(w.log, "wake")]
    ELSE w

DisplayManager_sleep_display(w, res) ==
    IF ~w.display_manager.is_asleep
    THEN [w EXCEPT !.macropad.display_sleep = TRUE,
                   !.macropad.pixels_brightness = F_0_0,
                   !.display_manager.is_asleep = TRUE,
                   !.m = NeoKeyManager_set_brightness(w.m, res, F_0_0),
                   !.log = [LogOp(w.log, "sleep") EXCEPT
                               !.before_sleep =
                                   [brightness |-> w.display_manager.brightness,
                                    pixels |-> w.macropad.pixels_brightness,
                                    neokey |-> w.m.nk.device.brightness]]]
    ELSE w

\* (a check that sleeps only once the timeout is exceeded)
DisplayManager_manage_sleep_Strict(w, res, start_time, sleep_timeout) ==
    IF w.now - start_time > sleep_timeout /\ ~w.display_manager.is_asleep
    THEN DisplayManager_sleep_display(w, res)
    ELSE w

DisplayManager_manage_sleep(w, res, start_time, sleep_timeout) ==
    IF w.now - start_time >= sleep_timeout /\ ~w.display_manager.is_asleep
    THEN DisplayManager_sleep_display(w, res)
    ELSE w

\* (an adjustment that forgets the upper clamp)
DisplayManager_adjust_brightness_NoMin(w, res, delta, with_neokey) ==
    LET new == FloatMax(F_0_0, FloatAddTenths(w.display_manager.brightness, delta))
    IN  [w EXCEPT !.display_manager.brightness = new,
                  !.macropad.pixels_brightness = new,
                  !.log = [LogOp(w.log, "adjust") EXCEPT
                              !.adjust = [delta |-> delta,
                                          from |-> w.display_manager.brightness]]]

\* delta: 1 for 0.1, -1 for -0.1; with_neokey: a neokey_manager was passed
DisplayManager_adjust_brightness(w, res, delta, with_neokey) ==
    LET new == FloatMax(F_0_0,
                   FloatMin(F_1_0,
                       FloatAddTenths(w.display_manager.brightness, delta)))
    IN  [w EXCEPT !.display_manager.brightness = new,
                  !.macropad.pixels_brightness = new,
                  !.m = IF with_neokey
                        THEN NeoKeyManager_set_brightness(w.m, res, new)
                        ELSE w.m,
                  !.log = [LogOp(w.log, "adjust") EXCEPT
                              !.adjust = [delta |-> delta,
                                          from |-> w.display_manager.brightness]]]

DisplayManager_init(initial_brightness) ==
    [brightness |-> initial_brightness, is_asleep |-> FALSE]

\* the MacroPad after lines 595-599 and App.switch: nothing held down
MacroPad_init ==
    [display_sleep |-> FALSE,
     pixels_brightness |-> F_0_1,
     keyboard |-> {},
     consumer |-> 0,
     mouse |-> {},
     tone |-> FALSE]

NoLog ==
    [ops |-> <<>>,
     before_sleep |-> [brightness |-> F_0_0, pixels |-> F_0_0,
                      neokey |-> F_0_0],
     adjust |-> [delta |-> 0, from |-> F_0_0],
     hid |-> <<>>,
     by |-> ""]

\* the display manager and the MacroPad as the program sets them up, left
\* alone
IdlePower ==
    /\ display_manager = DisplayManager_init(F_0_1)
    /\ macropad = MacroPad_init
    /\ activity_time = BootTime
    /\ power_log = NoLog

(***************************************************************************)
(* Macro files (src/macros).  An app is [name, macros]; a macro is         *)
(* [color, label, sequence]; an item of a sequence is a Python value,      *)
(* held as [type, n, text, codes, dict]: an int n, a float of n seconds, a *)
(* str, a list of ints and floats, or a dict.  A dict is held by the keys  *)
(* it has and the values of "test_string", "buttons" and "tone".  A        *)
(* command string is held as its words, so that Python's `in` is a search  *)
(* for a run of words.  types holds the Python types of the values of      *)
(* "test_string" and "buttons": `sub in command` raises TypeError for a    *)
(* command that is an int, and `item["buttons"] >= 0` raises TypeError for *)
(* a str.                                                                  *)
(***************************************************************************)
NoDict ==
    [has |-> {}, test_string |-> <<>>, buttons |-> 0, tone |-> 0,
     types |-> [test_string |-> "str", buttons |-> "int"]]
Value(type, n, text, codes, dict) ==
    [type |-> type, n |-> n, text |-> text, codes |-> codes, dict |-> dict]
IntItem(n) == Value("int", n, "", <<>>, NoDict)
FloatItem(seconds) == Value("float", seconds, "", <<>>, NoDict)
StrItem(text) == Value("str", 0, text, <<>>, NoDict)
ListItem(codes) == Value("list", 0, "", codes, NoDict)
CommandItem(words) ==
    Value("dict", 0, "", <<>>, [NoDict EXCEPT !.has = {"test_string"},
                                              !.test_string = words])
ButtonsItem(buttons) ==
    Value("dict", 0, "", <<>>, [NoDict EXCEPT !.has = {"buttons"},
                                              !.buttons = buttons])
ToneItem(tone) ==
    Value("dict", 0, "", <<>>, [NoDict EXCEPT !.has = {"tone"}, !.tone = tone])
\* a dict with both keys, as {"buttons": 1, "tone": 440}
ButtonsToneItem(buttons, tone) ==
    Value("dict", 0, "", <<>>, [NoDict EXCEPT !.has = {"buttons", "tone"},
                                              !.buttons = buttons,
                                              !.tone = tone])
\* None, a value of none of the types the interpreter tests for
NoneItem == Value("NoneType", 0, "", <<>>, NoDict)
\* a dict with none of the keys the interpreter looks for, as {"key": 4}
OtherDictItem == Value("dict", 0, "", <<>>, [NoDict EXCEPT !.has = {"key"}])
\* {"test_string": 5}
IntCommandItem ==
    Value("dict", 0, "", <<>>, [NoDict EXCEPT !.has = {"test_string"},
                                              !.types.test_string = "int"])
\* {"buttons": "left"}
StrButtonsItem ==
    Value("dict", 0, "", <<>>, [NoDict EXCEPT !.has = {"buttons"},
                                              !.types.buttons = "str"])
Macro(color, label, sequence) ==
    [color |-> color, label |-> label, sequence |-> sequence]
Blank == Macro(0, "", <<>>)

\* adafruit_hid.keycode.Keycode, adafruit_hid.consumer_control_code
Keycode_ESCAPE == 41
Keycode_CAPS_LOCK == 57
Keycode_GUI == 227
Keycode_LEFT_SHIFT == 225
Keycode_LEFT_CONTROL == 224
Keycode_S == 22
Keycode_T == 23
ConsumerControlCode_VOLUME_INCREMENT == 233
ConsumerControlCode_VOLUME_DECREMENT == 234
ConsumerControlCode_PLAY_PAUSE == 205

\* src/macros/basic.py; the keys the model presses are spelled out
App_Vash ==
    [name |-> "Vash",
     macros |->
        [i \in 1..13 |->
            CASE i = 1 -> Macro(127, "SCShot",
                    <<IntItem(Keycode_GUI), IntItem(Keycode_LEFT_SHIFT),
                      IntItem(Keycode_S)>>)
              [] i = 2 -> Macro(721011, "Crop",
                    <<IntItem(Keycode_GUI), IntItem(Keycode_LEFT_CONTROL),
                      IntItem(Keycode_LEFT_SHIFT), IntItem(Keycode_T)>>)
              [] i = 11 -> Macro(7536651, "Play/Pause",
                    <<ListItem(<<IntItem(ConsumerControlCode_PLAY_PAUSE)>>)>>)
              [] i = 13 -> Macro(0, "", <<IntItem(Keycode_CAPS_LOCK)>>)
              [] OTHER -> Blank]]

\* src/macros/z_configuration.py
App_Configuration ==
    [name |-> "Configuration",
     macros |->
        [i \in 1..13 |->
            CASE i = 1 -> Macro(16729344, "LED+",
                    <<CommandItem(<<"increase", "brightness">>)>>)
              [] i = 2 -> Macro(16729344, "LED-",
                    <<CommandItem(<<"decrease", "brightness">>)>>)
              [] i = 4 -> Macro(4286945, "Screen+",
                    <<CommandItem(<<"increase", "screen", "brightness">>)>>)
              [] i = 5 -> Macro(4286945, "Screen-",
                    <<CommandItem(<<"decrease", "screen", "brightness">>)>>)
              [] i = 7 -> Macro(65280, "Normal",
                    <<CommandItem(<<"normal", "mode">>)>>)
              [] i = 8 -> Macro(255, "Night",
                    <<CommandItem(<<"night", "mode">>)>>)
              [] i = 10 -> Macro(16711680, "Off",
                    <<CommandItem(<<"off", "mode">>)>>)
              [] i = 13 -> Macro(65280, "Normal",
                    <<CommandItem(<<"normal", "mode">>)>>)
              [] OTHER -> Blank]]

\* `sub in command` for strings held as words
Contains(command, sub) ==
    \E i \in 0..(Len(command) - Len(sub)) :
        SubSeq(command, i + 1, i + Len(sub)) = sub

(***************************************************************************)
(* The macro interpreter.  Its functions take and return the record of the *)
(* DisplayManager methods; the HID devices are held by what they keep      *)
(* down: macropad.keyboard the set of pressed keycodes, macropad.consumer  *)
(* the consumer code sent (0 for none), macropad.mouse the set of pressed  *)
(* button masks, macropad.tone whether a tone plays.                       *)
(* adafruit_hid's KeyboardLayout.write presses each character and then     *)
(* calls release_all; time.sleep moves the clock.  Every call made on a    *)
(* HID device is appended to log.hid as [call, code].                      *)
(***************************************************************************)
Emit(w, method, code) ==
    [w EXCEPT !.log.hid = Append(@, [call |-> method, code |-> code])]

\* (a handler that hands the NeoKeyManager on to adjust_brightness)
handle_special_macro_WithNeoKey(w, res, item) ==
    IF "test_string" \notin item.dict.has
    THEN w
    ELSE IF item.dict.types.test_string # "str"
    THEN [w EXCEPT !.m.raised = TRUE]
    ELSE IF Contains(item.dict.test_string, <<"increase", "brightness">>)
    THEN DisplayManager_adjust_brightness(w, res, 1, TRUE)
    ELSE IF Contains(item.dict.test_string, <<"decrease", "brightness">>)
    THEN DisplayManager_adjust_brightness(w, res, -1, TRUE)
    ELSE w

\* `"increase_brightness" in command` raises TypeError when command is
\* not a string; nothing catches it
handle_special_macro(w, res, item) ==
    IF "test_string" \notin item.dict.has
    THEN w
    ELSE IF item.dict.types.test_string # "str"
    THEN [w EXCEPT !.m.raised = TRUE]
    ELSE IF Contains(item.dict.test_string, <<"increase", "brightness">>)
    THEN DisplayManager_adjust_brightness(w, res, 1, FALSE)
    ELSE IF Contains(item.dict.test_string, <<"decrease", "brightness">>)
    THEN DisplayManager_adjust_brightness(w, res, -1, FALSE)
    ELSE w

\* (a batch that presses each code without the release before it)
RECURSIVE PressCodes_NoRelease(_, _, _)
PressCodes_NoRelease(w, codes, i) ==
    IF i > Len(codes)
    THEN w
    ELSE PressCodes_NoRelease(
            CASE codes[i].type = "int" ->
                    [Emit(w, "consumer_control.press", codes[i].n)
                        EXCEPT !.macropad.consumer = codes[i].n]
              [] codes[i].type = "float" ->
                    [w EXCEPT !.now = @ + codes[i].n]
              [] OTHER -> w,
            codes, i + 1)

RECURSIVE PressCodes(_, _, _)
PressCodes(w, codes, i) ==
    IF i > Len(codes)
    THEN w
    ELSE PressCodes(
            CASE codes[i].type = "int" ->
                    [Emit(Emit(w, "consumer_control.release", 0),
                          "consumer_control.press", codes[i].n)
                        EXCEPT !.macropad.consumer = codes[i].n]
              [] codes[i].type = "float" ->
                    [w EXCEPT !.now = @ + codes[i].n]
              [] OTHER -> w,
            codes, i + 1)

PressItem(w, res, item) ==
    CASE item.type = "int" ->
            IF item.n >= 0
            THEN [Emit(w, "keyboard.press", item.n)
                    EXCEPT !.macropad.keyboard = @ \cup {item.n}]
            ELSE [Emit(w, "keyboard.release", -item.n)
                    EXCEPT !.macropad.keyboard = @ \ {-item.n}]
      [] item.type = "float" -> [w EXCEPT !.now = @ + item.n]
      [] item.type = "str" ->
            IF item.text = ""
            THEN Emit(w, "keyboard_layout.write", 0)
            ELSE [Emit(w, "keyboard_layout.write", 0)
                    EXCEPT !.macropad.keyboard = {}]
      [] item.type = "list" -> PressCodes(w, item.codes, 1)
      [] item.type = "dict" -> handle_special_macro(w, res, item)
      [] OTHER -> w

\* (a release phase that lets go only the key codes below LEFT_SHIFT)
ReleaseItem_NoModifiers(w, item) ==
    IF item.type = "int" /\ item.n >= 0 /\ item.n < Keycode_LEFT_SHIFT
    THEN [Emit(w, "keyboard.release", item.n)
            EXCEPT !.macropad.keyboard = @ \ {item.n}]
    ELSE w

\* (a release phase that runs the special commands a second time)
ReleaseItem_RunsCommands(w, item) ==
    IF item.type = "int" /\ item.n >= 0
    THEN [Emit(w, "keyboard.release", item.n)
            EXCEPT !.macropad.keyboard = @ \ {item.n}]
    ELSE IF item.type = "dict"
    THEN IF "test_string" \in item.dict.has
         THEN handle_special_macro(w, "ok", item)
         ELSE IF "buttons" \in item.dict.has /\ item.dict.types.buttons # "int"
         THEN [w EXCEPT !.m.raised = TRUE]
         ELSE IF "buttons" \in item.dict.has /\ item.dict.buttons >= 0
         THEN [Emit(w, "mouse.release", item.dict.buttons)
                 EXCEPT !.macropad.mouse = @ \ {item.dict.buttons}]
         ELSE IF "tone" \in item.dict.has
         THEN [Emit(w, "stop_tone", 0) EXCEPT !.macropad.tone = FALSE]
         ELSE w
    ELSE w

ReleaseItem(w, item) ==
    IF item.type = "int" /\ item.n >= 0
    THEN [Emit(w, "keyboard.release", item.n)
            EXCEPT !.macropad.keyboard = @ \ {item.n}]
    ELSE IF item.type = "dict"
    THEN IF "buttons" \in item.dict.has /\ item.dict.types.buttons # "int"
         THEN [w EXCEPT !.m.raised = TRUE]
         ELSE IF "buttons" \in item.dict.has /\ item.dict.buttons >= 0
         THEN [Emit(w, "mouse.release", item.dict.buttons)
                 EXCEPT !.macropad.mouse = @ \ {item.dict.buttons}]
         ELSE IF "tone" \in item.dict.has
         THEN [Emit(w, "stop_tone", 0) EXCEPT !.macropad.tone = FALSE]
         ELSE w
    ELSE w

RECURSIVE RunItems(_, _, _, _, _)
RunItems(w, res, sequence, pressed, i) ==
    IF i > Len(sequence) \/ w.m.raised
    THEN w
    ELSE RunItems(
            IF pressed THEN PressItem(w, res, sequence[i])
                       ELSE ReleaseItem(w, sequence[i]),
            res, sequence, pressed, i + 1)

\* (an interpreter whose release phase ends without the consumer release)
execute_macro_sequence_NoConsumerRelease(w, res, sequence, pressed, key_number) ==
    IF pressed
    THEN RunItems(w, res, sequence, TRUE, 1)
    ELSE RunItems(w, res, sequence, FALSE, 1)

\* returns start_time, which the caller reads as the clock at entry; the
\* pixel of a grid key is set back to the colour App.switch gave it
\* an exception raised by an item leaves the function at once
execute_macro_sequence(w, res, sequence, pressed, key_number) ==
    IF pressed
    THEN RunItems(w, res, sequence, TRUE, 1)
    ELSE LET released == RunItems(w, res, sequence, FALSE, 1)
         IN  IF released.m.raised
             THEN released
             ELSE [Emit(released, "consumer_control.release", 0)
                     EXCEPT !.macropad.consumer = 0]

(***************************************************************************)
(* handle_neokey_buttons.                                                  *)
(***************************************************************************)
key_mapping ==
    <<Keycode_ESCAPE,
      ConsumerControlCode_VOLUME_INCREMENT,
      ConsumerControlCode_VOLUME_DECREMENT,
      ConsumerControlCode_PLAY_PAUSE>>

\* the body of `for i in range(4)`
NeoKeyButton(w, res, keys, i) ==
    LET d == Debouncer_update(w.debouncers[i], keys[i + 1])
        lit == [w EXCEPT !.debouncers[i] = d,
                         !.m = NeoKeyManager_set_pixel(w.m, res, i, COLOR_PRESSED)]
    IN  IF Debouncer_is_pressed(d)
        THEN IF i = 0
             THEN [Emit(Emit(lit, "keyboard.press", key_mapping[i + 1]),
                        "keyboard.release_all", 0)
                     EXCEPT !.macropad.keyboard = {}]
             ELSE [Emit(Emit(lit, "consumer_control.release", 0),
                        "consumer_control.press", key_mapping[i + 1])
                     EXCEPT !.macropad.consumer = key_mapping[i + 1]]
        ELSE lit

RECURSIVE NeoKeyButtons(_, _, _, _)
NeoKeyButtons(w, res, keys, i) ==
    IF i >= NEOKEY1X4_NUM_KEYS
    THEN w
    ELSE NeoKeyButtons(NeoKeyButton(w, res, keys, i), res, keys, i + 1)

handle_neokey_buttons(w, res, raw) ==
    LET read == NeoKeyManager_get_keys(w.m, res, w.now, raw)
        done == NeoKeyButtons([w EXCEPT !.m = read], res, read.ret, 0)
    IN  [Emit(done, "consumer_control.release", 0)
            EXCEPT !.macropad.consumer = 0]

(***************************************************************************)
(* App.switch: the title, the twelve labels and pixel colours (they follow *)
(* from the app and are not held), and the HID devices let go.             *)
(***************************************************************************)
\* (a switch that leaves the keyboard as it is)
App_switch_KeepsKeys(w) ==
    [Emit(Emit(Emit(w, "consumer_control.release", 0),
               "mouse.release_all", 0),
          "stop_tone", 0)
        EXCEPT !.macropad.consumer = 0,
               !.macropad.mouse = {},
               !.macropad.tone = FALSE]

App_switch(w) ==
    [Emit(Emit(Emit(Emit(w, "keyboard.release_all", 0),
                    "consumer_control.release", 0),
               "mouse.release_all", 0),
          "stop_tone", 0)
        EXCEPT !.macropad.keyboard = {},
               !.macropad.consumer = 0,
               !.macropad.mouse = {},
               !.macropad.tone = FALSE]

NoPending == [key_number |-> -1, pressed |-> FALSE]
\* key_number ranges over the twelve grid keys and 12, the encoder button
NoneHeld == [key_number \in 0..12 |-> -1]
NoRun ==
    [key_number |-> -1, pressed |-> FALSE, app_index |-> 0,
     asleep |-> FALSE, from |-> F_0_0]

\* the loop variables of a program that is not run
IdleLoop ==
    /\ pc = "idle"
    /\ apps = <<App_Vash, App_Configuration>>
    /\ app_index = 0
    /\ last_position = <<>>
    /\ last_encoder_switch = FALSE
    /\ title = [text |-> "", marker |-> FALSE]
    /\ pending = NoPending
    /\ held = NoneHeld
    /\ ran = NoRun
    /\ encoder = 0
    /\ encoder_switch = FALSE
    /\ neokey_held = AllFalse
    /\ events = <<>>
    /\ keys_down = {}
    /\ presses = 0

(***************************************************************************)
(* The NeoKeyManager on its own: built once, then its methods called in    *)
(* any order, as handle_neokey_buttons (get_keys, set_pixel), wake_display *)
(* (set_brightness, _try_reconnect when not connected) and sleep_display   *)
(* (set_brightness) call them, while the clock runs and the device comes   *)
(* and goes.                                                               *)
(***************************************************************************)
Manager == [nk |-> nk, connects |-> connects, raised |-> raised, ret |-> AllFalse]

\* what call keeps of the state a method was entered in
\* (since: the seconds since _last_reconnect, counted up to the interval)
Entry(o, t) ==
    [is_connected |-> o.is_connected,
     failed_reads |-> o.failed_reads,
     since |-> IF t - o.last_reconnect >= NEOKEY_RECONNECT_INTERVAL
               THEN NEOKEY_RECONNECT_INTERVAL
               ELSE t - o.last_reconnect]

Called(m, op, res) ==
    /\ nk' = m.nk
    /\ connects' = m.connects
    /\ raised' = m.raised
    /\ call' = [op |-> op, entry |-> Entry(nk, now), res |-> res, ret |-> m.ret]
    /\ streak' = IF op = "get_keys" /\ nk.is_connected
                 THEN IF res = "ok" THEN 0 ELSE streak + 1
                 ELSE IF m.nk.is_connected /\ ~nk.is_connected THEN 0
                 ELSE streak

\* the pixels and brightnesses the harness hands to the manager
PixelIndexes == {3}
BrightnessArgs == {F_0_0, F_0_1}

\* the debouncers as the program builds them, left alone
IdleDebouncers ==
    /\ neokey_debouncers = [i \in 0..(NEOKEY1X4_NUM_KEYS - 1) |-> Debouncer_init]
    /\ raws = <<>>

InitNeoKey ==
    /\ IdleDebouncers
    /\ IdlePower
    /\ IdleLoop
    /\ now = BootTime
    /\ busUp \in BOOLEAN
    /\ \E res \in BusOutcomes :
         LET m == NeoKeyManager_init(F_0_01, res, now)
         IN  /\ nk = m.nk
             /\ connects = m.connects
             /\ raised = m.raised
             /\ call = [op |-> "init", entry |-> Entry(m.nk, now), res |-> res,
                        ret |-> AllFalse]
             /\ streak = 0

GetKeys ==
    /\ \E res \in BusOutcomes, raw \in KeyPatterns :
         Called(NeoKeyManager_get_keys(Manager, res, now, raw), "get_keys", res)
    /\ UNCHANGED <<now, busUp, debVars, powerVars, loopVars, inputVars>>

SetPixel ==
    /\ \E res \in BusOutcomes, index \in PixelIndexes :
         Called(NeoKeyManager_set_pixel(Manager, res, index, COLOR_PRESSED),
                "set_pixel", res)
    /\ UNCHANGED <<now, busUp, debVars, powerVars, loopVars, inputVars>>

SetBrightness ==
    /\ \E res \in BusOutcomes, brightness \in BrightnessArgs :
         Called(NeoKeyManager_set_brightness(Manager, res, brightness),
                "set_brightness", res)
    /\ UNCHANGED <<now, busUp, debVars, powerVars, loopVars, inputVars>>

\* wake_display: if not neokey_manager.is_connected: _try_reconnect()
TryReconnect ==
    /\ ~nk.is_connected
    /\ \E res \in BusOutcomes :
         Called(NeoKeyManager_try_reconnect(Manager, res, now),
                "try_reconnect", res)
    /\ UNCHANGED <<now, busUp, debVars, powerVars, loopVars, inputVars>>

Tick ==
    /\ now < BootTime + MaxTime
    /\ now' = now + 1
    /\ UNCHANGED <<busUp, nk, connects, raised, call, streak, debVars, powerVars,
                   loopVars, inputVars>>

BusFlip ==
    /\ busUp' = ~busUp
    /\ UNCHANGED <<now, nk, connects, raised, call, streak, debVars, powerVars,
                   loopVars, inputVars>>

NextNeoKey ==
    \/ GetKeys
    \/ SetPixel
    \/ SetBrightness
    \/ TryReconnect
    \/ Tick
    \/ BusFlip

SpecNeoKey == InitNeoKey /\ [][NextNeoKey]_vars

\* The same calls made within one second, so that only the first
\* reconnection attempt is due.
NextWrites ==
    \/ GetKeys
    \/ SetPixel
    \/ SetBrightness
    \/ TryReconnect
    \/ BusFlip

SpecWrites == InitNeoKey /\ [][NextWrites]_vars

(***************************************************************************)
(* The Debouncers on their own: handle_neokey_buttons hands each of them   *)
(* its key of every list get_keys returns.                                 *)
(***************************************************************************)
\* the manager connected at power-up, left alone
IdleNeoKey ==
    /\ now = BootTime
    /\ busUp = TRUE
    /\ LET m == NeoKeyManager_init(F_0_01, "ok", BootTime)
       IN  /\ nk = m.nk
           /\ connects = m.connects
           /\ raised = m.raised
           /\ call = [op |-> "init", entry |-> Entry(m.nk, BootTime),
                      res |-> "ok", ret |-> AllFalse]
    /\ streak = 0

InitDebounce ==
    /\ IdleNeoKey
    /\ IdlePower
    /\ IdleLoop
    /\ IdleDebouncers

Update ==
    /\ Len(raws) < MaxUpdates
    /\ \E keys \in KeyPatterns :
         /\ neokey_debouncers' =
                [i \in DOMAIN neokey_debouncers |->
                    Debouncer_update(neokey_debouncers[i], keys[i + 1])]
         /\ raws' = Append(raws, keys)
    /\ UNCHANGED <<nkVars, powerVars, loopVars, inputVars>>

NextDebounce == Update

SpecDebounce == InitDebounce /\ [][NextDebounce]_vars

(***************************************************************************)
(* The DisplayManager on its own, with a NeoKey that answers: the main     *)
(* loop's calls of manage_sleep and wake_display (whose result it stores   *)
(* in activity_time), and the adjust_brightness calls of                   *)
(* handle_special_macro, in any order while the clock runs.                *)
(***************************************************************************)
World ==
    [display_manager |-> display_manager,
     macropad |-> macropad,
     m |-> Manager,
     debouncers |-> neokey_debouncers,
     now |-> now,
     log |-> power_log]

InitPower ==
    /\ IdleNeoKey
    /\ IdleDebouncers
    /\ IdlePower
    /\ IdleLoop

PowerDone(w) ==
    /\ display_manager' = w.display_manager
    /\ macropad' = w.macropad
    /\ power_log' = w.log
    /\ nk' = w.m.nk
    /\ raised' = w.m.raised
    /\ UNCHANGED <<now, busUp, connects, call, streak, debVars, loopVars,
                   inputVars>>

ManageSleep ==
    /\ \E res \in BusOutcomes :
         PowerDone(DisplayManager_manage_sleep(World, res, activity_time, SLEEP_TIME))
    /\ UNCHANGED activity_time

Wake ==
    /\ \E res \in BusOutcomes :
         PowerDone(DisplayManager_wake_display(World, res))
    /\ activity_time' = now

Adjust ==
    /\ \E res \in BusOutcomes, delta \in {1, -1} :
         PowerDone(DisplayManager_adjust_brightness(World, res, delta, FALSE))
    /\ UNCHANGED activity_time

\* the clock moves by a second, at most MaxIdle times running, or by a
\* second less than the sleep timeout
PowerTick ==
    /\ \E d \in {1, SLEEP_TIME - 1} :
         /\ d = 1 => (now - BootTime) % (SLEEP_TIME - 1) < MaxIdle
         /\ now + d <= BootTime + SLEEP_TIME + MaxIdle
         /\ now' = now + d
    /\ UNCHANGED <<busUp, nk, connects, raised, call, streak, debVars, powerVars,
                   loopVars, inputVars>>

NextPower ==
    \/ ManageSleep
    \/ Wake
    \/ Adjust
    \/ PowerTick

SpecPower == InitPower /\ [][NextPower]_vars

(***************************************************************************)
(* The macro interpreter on its own: one app with one macro, whose press   *)
(* and then release run through execute_macro_sequence as the main loop    *)
(* runs them for grid key 0, with handle_neokey_buttons called at any      *)
(* point, as every loop iteration does.  Nothing is held at the start.     *)
(* What ConsumerControl.press makes of a negative code lies outside the    *)
(* repository; the call and its argument are kept as they are made.        *)
(***************************************************************************)
\* the items a macro file can hold, one or two of each kind
MacroItems ==
    { IntItem(Keycode_S),
      IntItem(-Keycode_S),
      IntItem(Keycode_LEFT_SHIFT),
      FloatItem(1),
      StrItem("a"),
      ListItem(<<IntItem(ConsumerControlCode_PLAY_PAUSE)>>),
      ListItem(<<IntItem(ConsumerControlCode_VOLUME_INCREMENT), FloatItem(1),
                 IntItem(ConsumerControlCode_VOLUME_DECREMENT)>>),
      ListItem(<<IntItem(-ConsumerControlCode_PLAY_PAUSE)>>),
      ButtonsItem(1),
      ToneItem(440),
      ButtonsToneItem(1, 440),
      CommandItem(<<"increase", "brightness">>) }

RECURSIVE MacroSequences(_)
MacroSequences(n) ==
    IF n = 0
    THEN {<<>>}
    ELSE MacroSequences(n - 1)
            \cup { Append(sequence, item) :
                     sequence \in MacroSequences(n - 1), item \in MacroItems }

TestApp(sequence) == [name |-> "Test", macros |-> <<Macro(0, "", sequence)>>]

InitMacro ==
    /\ IdleNeoKey
    /\ IdleDebouncers
    /\ IdlePower
    /\ pc = "idle"
    /\ apps \in { <<TestApp(sequence)>> : sequence \in MacroSequences(MaxItems) }
    /\ app_index = 0
    /\ last_position = <<>>
    /\ last_encoder_switch = FALSE
    /\ title = [text |-> "", marker |-> FALSE]
    /\ pending = NoPending
    /\ held = NoneHeld
    /\ ran = NoRun
    /\ encoder = 0
    /\ encoder_switch = FALSE
    /\ neokey_held = AllFalse
    /\ events = <<>>
    /\ keys_down = {}
    /\ presses = 0

\* what a call leaves of the record it worked on, with the function that
\* made the HID calls
MacroDone(w, by) ==
    /\ display_manager' = w.display_manager
    /\ macropad' = w.macropad
    /\ power_log' = [w.log EXCEPT !.by = by]
    /\ nk' = w.m.nk
    /\ raised' = w.m.raised
    /\ neokey_debouncers' = w.debouncers
    /\ now' = w.now
    /\ UNCHANGED <<busUp, connects, call, streak, raws, activity_time, pc, apps,
                   app_index, last_position, last_encoder_switch, title,
                   pending, held, inputVars>>

\* the record the next call works on: no HID call made yet
Quiet == [World EXCEPT !.log.hid = <<>>]

\* execute_macro_sequence(sequence, True, 0, ...)
MacroPress ==
    /\ ~raised
    /\ ran = NoRun
    /\ \E res \in BusOutcomes :
         MacroDone(execute_macro_sequence(
                       Quiet, res, apps[1].macros[1].sequence, TRUE, 0),
                   "press")
    /\ ran' = [NoRun EXCEPT !.key_number = 0, !.pressed = TRUE,
                            !.from = display_manager.brightness]

\* execute_macro_sequence(sequence, False, 0, ...)
MacroRelease ==
    /\ ~raised
    /\ ran.key_number = 0
    /\ ran.pressed
    /\ \E res \in BusOutcomes :
         MacroDone(execute_macro_sequence(
                       Quiet, res, apps[1].macros[1].sequence, FALSE, 0),
                   "release")
    /\ ran' = [ran EXCEPT !.pressed = FALSE]

\* handle_neokey_buttons(neokey_debouncers, neokey_manager, macropad)
MacroNeoKey ==
    /\ ~raised
    /\ \E res \in BusOutcomes, raw \in KeyPatterns :
         MacroDone(handle_neokey_buttons(Quiet, res, raw), "neokey")
    /\ UNCHANGED ran

NextMacro ==
    \/ MacroPress
    \/ MacroRelease
    \/ MacroNeoKey

SpecMacro == InitMacro /\ [][NextMacro]_vars

\* handle_neokey_buttons called again and again, as the main loop does,
\* while NeoKey buttons go down once and stay down, the device comes and
\* goes and the clock runs.  The HID calls of all the polls are kept.
HeldDown ==
    /\ neokey_held = AllFalse
    /\ \E buttons \in KeyPatterns \ {AllFalse} : neokey_held' = buttons
    /\ UNCHANGED <<nkVars, debVars, powerVars, loopVars, encoder,
                   encoder_switch, events, keys_down, presses>>

HeldPoll ==
    /\ Len(power_log.hid) <= 2 * MaxUpdates
    /\ \E res \in BusOutcomes :
         MacroDone(handle_neokey_buttons(World, res, neokey_held), "neokey")
    /\ UNCHANGED ran

NextHeld ==
    \/ HeldDown
    \/ HeldPoll
    \/ BusFlip
    \/ Tick

SpecHeld == InitPower /\ [][NextHeld]_vars

\* The interpreter given sequences that hold values of other shapes: None,
\* a dict with no key it knows, and dicts whose values have the wrong type,
\* next to a key code.
OtherItems ==
    { NoneItem, OtherDictItem, IntCommandItem, StrButtonsItem,
      IntItem(Keycode_S) }

RECURSIVE OtherSequences(_)
OtherSequences(n) ==
    IF n = 0
    THEN {<<>>}
    ELSE OtherSequences(n - 1)
            \cup { Append(sequence, item) :
                     sequence \in OtherSequences(n - 1), item \in OtherItems }

InitOther ==
    /\ IdleNeoKey
    /\ IdleDebouncers
    /\ IdlePower
    /\ pc = "idle"
    /\ apps \in { <<TestApp(sequence)>> : sequence \in OtherSequences(MaxItems) }
    /\ app_index = 0
    /\ last_position = <<>>
    /\ last_encoder_switch = FALSE
    /\ title = [text |-> "", marker |-> FALSE]
    /\ pending = NoPending
    /\ held = NoneHeld
    /\ ran = NoRun
    /\ encoder = 0
    /\ encoder_switch = FALSE
    /\ neokey_held = AllFalse
    /\ events = <<>>
    /\ keys_down = {}
    /\ presses = 0

SpecOther == InitOther /\ [][NextMacro]_vars

(***************************************************************************)
(* The program: the initialization (lines 594-632) and the main loop, one  *)
(* action for each of its steps, in the order of the source.  The title's  *)
(* animation (animate_label) moves only the label's x and its own          *)
(* timestamp, which nothing else reads, and is left out.  The dial, the    *)
(* keys, the clock and the bus change between any two steps.               *)
(***************************************************************************)
\* the macro folders the program is started with
AppLists == { <<>>, <<App_Vash, App_Configuration>> }
\* the grid keys that get pressed
GridKeys == {0, 1}

\* (a start that enters the main loop whatever was loaded)
LoopEntry_Always(n) == "neokey"

\* lines 614-618: with no app the program stays in `while True: pass`
LoopEntry(n) == IF n = 0 THEN "halt" ELSE "neokey"

Init ==
    /\ now = BootTime
    /\ busUp = TRUE
    /\ \E res \in BusOutcomes :
         LET m == NeoKeyManager_init(F_0_01, res, now)
         IN  /\ nk = m.nk
             /\ raised = m.raised
             /\ connects = <<>>
             /\ call = [op |-> "init", entry |-> Entry(m.nk, now), res |-> res,
                        ret |-> AllFalse]
             /\ streak = 0
    /\ IdleDebouncers
    /\ IdlePower
    /\ apps \in AppLists
    /\ app_index = 0
    /\ last_position = <<>>
    /\ encoder_switch \in BOOLEAN
    /\ last_encoder_switch = encoder_switch
    /\ title = IF apps = <<>>
               THEN [text |-> "NO MACRO FILES", marker |-> FALSE]
               ELSE [text |-> apps[1].name, marker |-> FALSE]
    /\ pc = LoopEntry(Len(apps))
    /\ pending = NoPending
    /\ held = NoneHeld
    /\ ran = NoRun
    /\ encoder = 0
    /\ neokey_held = AllFalse
    /\ events = <<>>
    /\ keys_down = {}
    /\ presses = 0

\* what a step leaves of the record it worked on
Done(w) ==
    /\ display_manager' = w.display_manager
    /\ macropad' = w.macropad
    /\ UNCHANGED power_log
    /\ nk' = w.m.nk
    /\ raised' = w.m.raised
    /\ neokey_debouncers' = w.debouncers
    /\ now' = w.now
    /\ UNCHANGED <<busUp, connects, call, streak, raws, apps, encoder,
                   encoder_switch, neokey_held, keys_down, presses>>

\* handle_neokey_buttons(neokey_debouncers, neokey_manager, macropad)
LoopNeoKey ==
    /\ pc = "neokey"
    /\ \E res \in BusOutcomes :
         Done(handle_neokey_buttons(World, res, neokey_held))
    /\ pc' = "sleep"
    /\ ran' = NoRun
    /\ UNCHANGED <<activity_time, app_index, last_position,
                   last_encoder_switch, title, pending, held, events>>

\* display_manager.manage_sleep(activity_time, SLEEP_TIME, ...)
LoopSleep ==
    /\ pc = "sleep"
    /\ \E res \in BusOutcomes :
         Done(DisplayManager_manage_sleep(World, res, activity_time, SLEEP_TIME))
    /\ pc' = "marker"
    /\ UNCHANGED <<activity_time, app_index, last_position,
                   last_encoder_switch, title, pending, held, ran, events>>

\* (a step that puts the marker on the title and never takes it off)
LoopMarker_NeverClears ==
    /\ pc = "marker"
    /\ title' = IF ~nk.is_connected /\ ~title.marker
                THEN [text |-> apps[app_index + 1].name, marker |-> TRUE]
                ELSE title
    /\ pc' = "encoder"
    /\ display_manager' = display_manager
    /\ macropad' = macropad
    /\ nk' = nk
    /\ raised' = raised
    /\ neokey_debouncers' = neokey_debouncers
    /\ now' = now
    /\ UNCHANGED <<power_log, busUp, connects, call, streak, raws, apps,
                   encoder, encoder_switch, neokey_held, keys_down, presses,
                   activity_time, app_index, last_position,
                   last_encoder_switch, pending, held, ran, events>>

\* lines 650-656
LoopMarker ==
    /\ pc = "marker"
    /\ title' = IF ~nk.is_connected
                THEN IF ~title.marker
                     THEN [text |-> apps[app_index + 1].name, marker |-> TRUE]
                     ELSE title
                ELSE IF title.marker
                     THEN [text |-> apps[app_index + 1].name, marker |-> FALSE]
                     ELSE title
    /\ pc' = "encoder"
    /\ Done(World)
    /\ UNCHANGED <<activity_time, app_index, last_position,
                   last_encoder_switch, pending, held, ran, events>>

\* (an index that sends every negative position to the first app)
WrapIndex_NoNegative(position, n) ==
    IF position < 0 THEN 0 ELSE position % n

\* position % len(apps): Python's % takes the sign of the divisor, as the
\* % of a positive n does here
WrapIndex(position, n) == position % n

\* lines 658-664
LoopEncoder ==
    /\ pc = "encoder"
    /\ IF <<encoder>> # last_position
       THEN /\ app_index' = WrapIndex(encoder, Len(apps))
            /\ title' = [text |-> apps[WrapIndex(encoder, Len(apps)) + 1].name,
                         marker |-> FALSE]
            /\ last_position' = <<encoder>>
            /\ \E res \in BusOutcomes :
                 Done(DisplayManager_wake_display(App_switch(World), res))
            /\ activity_time' = now
       ELSE /\ Done(World)
            /\ UNCHANGED <<app_index, title, last_position, activity_time>>
    /\ pc' = "switch"
    /\ UNCHANGED <<last_encoder_switch, pending, held, ran, events>>

\* lines 666-678
LoopSwitch ==
    /\ pc = "switch"
    /\   IF encoder_switch # last_encoder_switch
         THEN /\ \E res \in BusOutcomes :
                   Done(DisplayManager_wake_display(World, res))
              /\ activity_time' = now
              /\ last_encoder_switch' = encoder_switch
              /\ IF Len(apps[app_index + 1].macros) < 13
                 THEN pc' = "neokey" /\ pending' = NoPending
                 ELSE /\ pc' = "execute"
                      /\ pending' = [key_number |-> 12, pressed |-> encoder_switch]
         ELSE /\ Done(World)
              /\ UNCHANGED <<activity_time, last_encoder_switch, pending>>
              /\ pc' = "event"
    /\ UNCHANGED <<app_index, last_position, title, held, ran, events>>

\* (a test that lets through the index just past the last macro)
KeyPastMacros_Above(key_number, macros) == key_number > Len(macros)

\* line 681: event.key_number >= len(apps[app_index].macros)
KeyPastMacros(key_number, macros) == key_number >= Len(macros)

\* lines 680-685: event = macropad.keys.events.get()
LoopEvent ==
    /\ pc = "event"
    /\ IF events = <<>>
       THEN /\ pc' = "neokey"
            /\ UNCHANGED <<events, pending>>
       ELSE /\ events' = Tail(events)
            /\ IF KeyPastMacros(Head(events).key_number,
                                apps[app_index + 1].macros)
               THEN pc' = "neokey" /\ UNCHANGED pending
               ELSE pc' = "execute" /\ pending' = Head(events)
    /\ Done(World)
    /\ UNCHANGED <<activity_time, app_index, last_position,
                   last_encoder_switch, title, held, ran>>

\* lines 687-692
LoopExecute ==
    /\ pc = "execute"
    /\ \E res \in BusOutcomes :
         Done(execute_macro_sequence(
                World, res,
                apps[app_index + 1].macros[pending.key_number + 1].sequence,
                pending.pressed, pending.key_number))
    /\ activity_time' = now
    /\ ran' = [key_number |-> pending.key_number,
               pressed |-> pending.pressed,
               app_index |-> app_index,
               asleep |-> display_manager.is_asleep,
               from |-> display_manager.brightness]
    /\ held' = [held EXCEPT ![pending.key_number] =
                                IF pending.pressed THEN app_index ELSE -1]
    /\ pending' = NoPending
    /\ pc' = "neokey"
    /\ UNCHANGED <<app_index, last_position, last_encoder_switch, title, events>>

(***************************************************************************)
(* What happens around the program.                                        *)
(***************************************************************************)
\* the clock, the bus and the inputs are let move at the head of the loop,
\* and while the program stays in the loop of line 617
Running == pc \in {"neokey", "halt"}

\* the dial is turned by one detent
Turn ==
    /\ Running
    /\ \E p \in {encoder - 1, encoder + 1} :
         /\ p \in (-MaxTurn)..MaxTurn
         /\ encoder' = p
    /\ UNCHANGED <<nkVars, debVars, powerVars, loopVars, encoder_switch,
                   neokey_held, events, keys_down, presses>>

\* the reading of the dial's push button changes
SwitchFlip ==
    /\ Running
    /\ encoder_switch' = ~encoder_switch
    /\ UNCHANGED <<nkVars, debVars, powerVars, loopVars, encoder,
                   neokey_held, events, keys_down, presses>>

\* a grid key goes down
KeyDown ==
    /\ Running
    /\ presses < MaxPresses
    /\ Len(events) < MaxQueue
    /\ \E k \in GridKeys \ keys_down :
         /\ keys_down' = keys_down \cup {k}
         /\ events' = Append(events, [key_number |-> k, pressed |-> TRUE])
    /\ presses' = presses + 1
    /\ UNCHANGED <<nkVars, debVars, powerVars, loopVars, encoder,
                   encoder_switch, neokey_held>>

\* a grid key comes up
KeyUp ==
    /\ Running
    /\ Len(events) < MaxQueue
    /\ \E k \in keys_down :
         /\ keys_down' = keys_down \ {k}
         /\ events' = Append(events, [key_number |-> k, pressed |-> FALSE])
    /\ UNCHANGED <<nkVars, debVars, powerVars, loopVars, encoder,
                   encoder_switch, neokey_held, presses>>

\* the NeoKey buttons are pressed or let go
NeoKeyPress ==
    /\ Running
    /\ \E buttons \in KeyPatterns \ {neokey_held} : neokey_held' = buttons
    /\ UNCHANGED <<nkVars, debVars, powerVars, loopVars, encoder,
                   encoder_switch, events, keys_down, presses>>

\* the clock moves by the sleep timeout
TickSleep ==
    /\ Running
    /\ now + SLEEP_TIME <= BootTime + SLEEP_TIME * MaxSleeps
    /\ now' = now + SLEEP_TIME
    /\ UNCHANGED <<busUp, nk, connects, raised, call, streak, debVars,
                   powerVars, loopVars, inputVars>>

\* the clock moves by the reconnect interval
TickInterval ==
    /\ Running
    /\ (now - BootTime) % SLEEP_TIME < NEOKEY_RECONNECT_INTERVAL * MaxIdle
    /\ now' = now + NEOKEY_RECONNECT_INTERVAL
    /\ UNCHANGED <<busUp, nk, connects, raised, call, streak, debVars,
                   powerVars, loopVars, inputVars>>

\* the NeoKey is plugged in or pulled out
LoopBusFlip ==
    /\ Running
    /\ busUp' = ~busUp
    /\ UNCHANGED <<now, nk, connects, raised, call, streak, debVars,
                   powerVars, loopVars, inputVars>>

\* the steps of the program
Loop ==
    \/ LoopNeoKey
    \/ LoopSleep
    \/ LoopMarker
    \/ LoopEncoder
    \/ LoopSwitch
    \/ LoopEvent
    \/ LoopExecute

\* The program with a NeoKey that answers throughout and whose buttons are
\* left alone: the dial is turned and pushed, grid
\* keys are pressed, and the clock moves by whole sleep timeouts.
Next ==
    \/ Loop
    \/ Turn
    \/ SwitchFlip
    \/ KeyDown
    \/ KeyUp
    \/ TickSleep

Spec == Init /\ [][Next]_vars

\* The program with a NeoKey that is pulled out and plugged in while the
\* dial is turned and pushed and the clock moves by reconnect intervals.
NextBus ==
    \/ Loop
    \/ Turn
    \/ SwitchFlip
    \/ LoopBusFlip
    \/ TickInterval

SpecBus == Init /\ [][NextBus]_vars

\* The program with its inputs left alone and a NeoKey that is pulled out
\* and plugged in.  The loop of line 636 never blocks, so the step that is
\* next is taken in the end; the clock keeps moving, up to the last moment
\* TickInterval allows.
Polling ==
    \/ LoopNeoKey
    \/ LoopSleep
    \/ LoopMarker
    \/ LoopEncoder
    \/ LoopSwitch
    \/ LoopEvent

NextRetry ==
    \/ Polling
    \/ LoopBusFlip
    \/ TickInterval

\* the loop goes on to another step: the steps of Polling are the steps
\* of NextRetry that change pc
Advance ==
    /\ pc # "halt"
    /\ \E step \in {"neokey", "sleep", "marker", "encoder", "switch", "event"}
                      \ {pc} :
         pc' = step

SpecRetry ==
    /\ Init
    /\ [][NextRetry]_vars
    /\ WF_pc(Advance)
    /\ SF_vars(TickInterval)

\* a macro file with a single macro, and none for the encoder button
App_Short ==
    [name |-> "Short",
     macros |-> <<Macro(127, "S", <<IntItem(Keycode_S)>>)>>]

\* The program started on a folder whose first file has fewer than 13
\* macros.
InitShort ==
    /\ now = BootTime
    /\ busUp = TRUE
    /\ \E res \in BusOutcomes :
         LET m == NeoKeyManager_init(F_0_01, res, now)
         IN  /\ nk = m.nk
             /\ raised = m.raised
             /\ connects = <<>>
             /\ call = [op |-> "init", entry |-> Entry(m.nk, now), res |-> res,
                        ret |-> AllFalse]
             /\ streak = 0
    /\ IdleDebouncers
    /\ IdlePower
    /\ apps = <<App_Short, App_Vash>>
    /\ app_index = 0
    /\ last_position = <<>>
    /\ encoder_switch \in BOOLEAN
    /\ last_encoder_switch = encoder_switch
    /\ title = [text |-> apps[1].name, marker |-> FALSE]
    /\ pc = LoopEntry(Len(apps))
    /\ pending = NoPending
    /\ held = NoneHeld
    /\ ran = NoRun
    /\ encoder = 0
    /\ neokey_held = AllFalse
    /\ events = <<>>
    /\ keys_down = {}
    /\ presses = 0

SpecShort == InitShort /\ [][Next]_vars

\* The program with a NeoKey that answers throughout and whose buttons are
\* pressed, while grid keys are pressed and the dial is left alone.
NextSatellite ==
    \/ Loop
    \/ KeyDown
    \/ KeyUp
    \/ NeoKeyPress

SpecSatellite == Init /\ [][NextSatellite]_vars

(***************************************************************************)
(* Claims about the NeoKeyManager, checked under SpecNeoKey.               *)
(***************************************************************************)

\* C1: while connected the manager becomes disconnected exactly in a
\* get_keys call whose bulk read is the third to fail in a row; a good read
\* sets the failure counter to 0 and keeps the manager connected; the
\* counter stays in 0..3.
C1_DisconnectOnThirdFailure ==
    /\ nk.failed_reads \in 0..FAILED_READS_LIMIT
    /\ (call.entry.is_connected /\ ~nk.is_connected) => call.op = "get_keys"
    /\ (call.op = "get_keys" /\ call.entry.is_connected) =>
          /\ ~nk.is_connected <=> (call.res # "ok" /\ streak = 3)
          /\ call.res = "ok" => nk.failed_reads = 0
          /\ call.res # "ok" => streak = nk.failed_reads

\* a third failed read in a row has just disconnected the manager
C1_Witness ==
    /\ call.op = "get_keys"
    /\ call.entry.is_connected
    /\ call.res # "ok"
    /\ streak = 3
    /\ ~nk.is_connected

\* C2 as stated: once disconnected through three failed reads, a get_keys
\* call that finds the device answering leaves the manager connected with the
\* failure counter at 0.
C2_Original ==
    (/\ call.op = "get_keys"
     /\ ~call.entry.is_connected
     /\ call.entry.failed_reads = FAILED_READS_LIMIT
     /\ call.res = "ok")
    => (nk.is_connected /\ nk.failed_reads = 0)

\* C2 as amended: once disconnected through three failed reads, a get_keys
\* call that finds the device answering leaves the manager connected with the
\* failure counter at 0 when at least NEOKEY_RECONNECT_INTERVAL seconds have
\* passed since _last_reconnect, and leaves it disconnected with the counter
\* untouched when fewer have.
C2_ReconnectWhenDue ==
    (/\ call.op = "get_keys"
     /\ ~call.entry.is_connected
     /\ call.entry.failed_reads = FAILED_READS_LIMIT
     /\ call.res = "ok")
    => IF call.entry.since >= NEOKEY_RECONNECT_INTERVAL
       THEN nk.is_connected /\ nk.failed_reads = 0
       ELSE ~nk.is_connected /\ nk.failed_reads = FAILED_READS_LIMIT

\* a get_keys call has reconnected a manager that three failed reads had
\* disconnected
C2_Witness ==
    /\ call.op = "get_keys"
    /\ ~call.entry.is_connected
    /\ call.entry.failed_reads = FAILED_READS_LIMIT
    /\ call.res = "ok"
    /\ nk.is_connected
    /\ nk.failed_reads = 0

\* C3 as stated: any two consecutive connection attempts of the manager,
\* the one made by the constructor included, are at least
\* NEOKEY_RECONNECT_INTERVAL seconds apart.
C3_Original ==
    Len(connects) = 2 => connects[2] - connects[1] >= NEOKEY_RECONNECT_INTERVAL

\* C4: no exception leaves the constructor, get_keys, set_pixel or
\* set_brightness, and get_keys returns four times False whenever it is
\* entered disconnected or its bulk read fails.
C4_FailuresStayInside ==
    /\ ~raised
    /\ (call.op = "get_keys" /\ (~call.entry.is_connected \/ call.res # "ok"))
          => call.ret = AllFalse

\* a get_keys call entered disconnected has reconnected and returned four
\* times False
C4_Witness ==
    /\ call.op = "get_keys"
    /\ ~call.entry.is_connected
    /\ nk.is_connected
    /\ call.ret = AllFalse
    /\ ~raised

(***************************************************************************)
(* Claims about the Debouncer, checked under SpecDebounce.                 *)
(***************************************************************************)
\* the raw value of button i in the n-th update, False before the first
RawAt(i, n) == IF n >= 1 THEN raws[n][i + 1] ELSE FALSE

\* C5: after every update, is_pressed() is true exactly when that update's
\* raw value is true and the raw value of the update before it (False when
\* there is none) is false.
C5_RisingEdgeOnly ==
    Len(raws) >= 1 =>
        \A i \in DOMAIN neokey_debouncers :
            Debouncer_is_pressed(neokey_debouncers[i])
                <=> (RawAt(i, Len(raws)) /\ ~RawAt(i, Len(raws) - 1))

\* a button has read true in three updates running, was reported pressed on
\* the first of them and is not on the third
C5_Witness ==
    /\ Len(raws) >= 4
    /\ ~RawAt(0, Len(raws) - 3)
    /\ RawAt(0, Len(raws) - 2)
    /\ RawAt(0, Len(raws) - 1)
    /\ RawAt(0, Len(raws))
    /\ ~Debouncer_is_pressed(neokey_debouncers[0])

(***************************************************************************)
(* Claims about the DisplayManager, checked under SpecPower.               *)
(***************************************************************************)
\* C7: when a wake is the change that follows a sleep, the manager's
\* brightness and the MacroPad pixels' brightness are the values they had
\* just before that sleep.
C7_SleepWakeRestores ==
    power_log.ops = <<"sleep", "wake">> =>
        /\ display_manager.brightness = power_log.before_sleep.brightness
        /\ macropad.pixels_brightness = power_log.before_sleep.pixels
        /\ macropad.pixels_brightness = display_manager.brightness
        /\ ~display_manager.is_asleep
        /\ ~macropad.display_sleep

\* a sleep and then a wake have restored a brightness that adjustments had
\* moved away from INITIAL_BRIGHTNESS
C7_Witness ==
    /\ power_log.ops = <<"sleep", "wake">>
    /\ power_log.before_sleep.brightness # F_0_1
    /\ macropad.pixels_brightness = power_log.before_sleep.pixels
    /\ macropad.pixels_brightness # F_0_0

\* C10: the brightness is never below 0.0 nor above 1.0; an adjustment by
\* +0.1 made at 1.0 leaves 1.0 and one by -0.1 made at 0.0 leaves 0.0.
C10_ClampedBrightness ==
    /\ ~FloatLess(display_manager.brightness, F_0_0)
    /\ ~FloatLess(F_1_0, display_manager.brightness)
    /\ (/\ power_log.ops # <<>>
        /\ power_log.ops[Len(power_log.ops)] = "adjust") =>
          /\ (power_log.adjust.from = F_1_0 /\ power_log.adjust.delta = 1)
                => display_manager.brightness = F_1_0
          /\ (power_log.adjust.from = F_0_0 /\ power_log.adjust.delta = -1)
                => display_manager.brightness = F_0_0

\* an adjustment by +0.1 has just been made at 1.0
C10_Witness ==
    /\ power_log.ops # <<>>
    /\ power_log.ops[Len(power_log.ops)] = "adjust"
    /\ power_log.adjust.from = F_1_0
    /\ power_log.adjust.delta = 1
    /\ display_manager.brightness = F_1_0

(***************************************************************************)
(* Claims about the main loop, checked under Spec.                         *)
(***************************************************************************)
\* C6 as stated: whenever a key event has reached execute_macro_sequence,
\* the display manager is awake: the sleep flags are cleared and the pixels
\* have the manager's brightness.
C6_Original ==
    pc = "execute" =>
        /\ ~display_manager.is_asleep
        /\ ~macropad.display_sleep
        /\ macropad.pixels_brightness = display_manager.brightness

\* C8 as stated: while the display manager is asleep the MacroPad pixels'
\* brightness is 0 and the display's sleep flag is set.
C8_Original ==
    display_manager.is_asleep =>
        /\ macropad.pixels_brightness = F_0_0
        /\ macropad.display_sleep

\* the press of LED+ (1) or LED- (-1) of Configuration that has just run
RanAdjust ==
    IF ran.pressed /\ ran.key_number \in {0, 1}
       /\ apps[ran.app_index + 1].name = "Configuration"
    THEN IF ran.key_number = 0 THEN 1 ELSE -1
    ELSE 0

\* C9 as stated: when the press of LED+ or LED- has run, the manager's
\* brightness is the one before it moved by 0.1 and clamped to [0.0, 1.0],
\* and the MacroPad pixels, the NeoKeyManager and the pixels of the NeoKey
\* it is connected to all have that brightness.
C9_Original ==
    RanAdjust # 0 =>
        /\ display_manager.brightness =
               FloatMax(F_0_0, FloatMin(F_1_0, FloatAddTenths(ran.from, RanAdjust)))
        /\ macropad.pixels_brightness = display_manager.brightness
        /\ nk.brightness = display_manager.brightness
        /\ nk.is_connected => nk.device.brightness = display_manager.brightness

\* C11: the manage_sleep call of a loop iteration puts an awake display
\* manager to sleep when SLEEP_TIME or more has passed since activity_time
\* (is_asleep and display_sleep set, the MacroPad pixels' and the NeoKey's
\* brightness 0, the remembered brightness kept), and changes nothing when
\* less has passed or the manager is asleep already.
C11_SleepsWhenIdle ==
    [][pc = "sleep" =>
        IF now - activity_time >= SLEEP_TIME /\ ~display_manager.is_asleep
        THEN /\ display_manager'.is_asleep
             /\ display_manager'.brightness = display_manager.brightness
             /\ macropad'.display_sleep
             /\ macropad'.pixels_brightness = F_0_0
             /\ nk'.brightness = F_0_0
             /\ nk'.is_connected => nk'.device.brightness = F_0_0
        ELSE UNCHANGED <<display_manager, macropad, nk>>]_vars

\* manage_sleep has run exactly SLEEP_TIME after the last activity and the
\* display manager sleeps
C11_Witness ==
    /\ pc = "marker"
    /\ now - activity_time = SLEEP_TIME
    /\ display_manager.is_asleep
    /\ macropad.display_sleep
    /\ macropad.pixels_brightness = F_0_0
    /\ nk.device.brightness = F_0_0

\* the r in 0..n-1 with p = q * n + r
MathMod(p, n) ==
    CHOOSE r \in 0..(n - 1) :
        \E q \in (-(p * p) - 1)..(p * p + 1) : p = q * n + r

\* C12: with at least one app loaded, app_index is always in
\* 0..len(apps)-1, it is the dial's position modulo len(apps) once the dial
\* has been read, whatever the position's sign, and the title names that
\* app.
C12_IndexWraps ==
    apps # <<>> =>
        /\ app_index \in 0..(Len(apps) - 1)
        /\ last_position # <<>> =>
              app_index = MathMod(last_position[1], Len(apps))
        /\ title.text = apps[app_index + 1].name

\* the dial has been read at a negative position and the last app is shown
C12_Witness ==
    /\ pc = "switch"
    /\ last_position = <<-1>>
    /\ app_index = Len(apps) - 1
    /\ title.text = "Configuration"

\* C13: the step of the loop that finds the dial moved and switches the app
\* leaves no key code, no consumer code, no mouse button and no tone on.
C13_SwitchResetsOutputs ==
    [][(pc = "encoder" /\ <<encoder>> # last_position) =>
          /\ macropad'.keyboard = {}
          /\ macropad'.consumer = 0
          /\ macropad'.mouse = {}
          /\ ~macropad'.tone]_vars

\* grid key 0 went down once and is still down, its press ran SCShot of
\* Vash (the brightness was never adjusted), and after the switch to
\* Configuration no key code is held
C13_Witness ==
    /\ pc = "switch"
    /\ last_position = <<encoder>>
    /\ app_index = 1
    /\ keys_down = {0}
    /\ presses = 1
    /\ events = <<>>
    /\ display_manager.brightness = F_0_1
    /\ macropad.keyboard = {}

\* C14 as stated: when the release of a key is about to run, the sequence
\* it runs is the one the press of that key ran.
C14_Original ==
    (/\ pc = "execute"
     /\ ~pending.pressed
     /\ held[pending.key_number] # -1)
    => apps[app_index + 1].macros[pending.key_number + 1].sequence
         = apps[held[pending.key_number] + 1].macros[pending.key_number + 1].sequence

(***************************************************************************)
(* Claims about the main loop with the NeoKey's buttons in use, checked    *)
(* under SpecSatellite.                                                    *)
(***************************************************************************)
\* C15 as stated: a key code that a macro holds down stays down through
\* every step of the loop that neither runs a macro nor switches the app,
\* the handling of the NeoKey buttons included.
C15_Original ==
    [][(\/ pc \in {"neokey", "sleep", "marker", "switch", "event"}
        \/ (pc = "encoder" /\ <<encoder>> = last_position))
       => macropad.keyboard \subseteq macropad'.keyboard]_vars

(***************************************************************************)
(* Claims about the macro interpreter, checked under SpecMacro.            *)
(***************************************************************************)
\* the sequence of the macro the interpreter is given
TestSequence == apps[1].macros[1].sequence

\* C16: once the press and then the release of a macro have run, starting
\* with nothing held, no key code is held, whatever the sequence.
C16_PressReleaseLeavesNone ==
    (ran.key_number = 0 /\ ~ran.pressed) => macropad.keyboard = {}

\* the press and the release of a sequence that presses S and then
\* releases it by a negative entry have run
C16_Witness ==
    /\ TestSequence = <<IntItem(Keycode_S), IntItem(-Keycode_S)>>
    /\ ran.key_number = 0
    /\ ~ran.pressed
    /\ power_log.by = "release"
    /\ macropad.keyboard = {}

\* the consumer codes asserted after the first n HID calls of the log
RECURSIVE Asserted(_)
Asserted(n) ==
    IF n = 0
    THEN {}
    ELSE IF power_log.hid[n].call = "consumer_control.press"
    THEN Asserted(n - 1) \cup {power_log.hid[n].code}
    ELSE IF power_log.hid[n].call = "consumer_control.release"
    THEN {}
    ELSE Asserted(n - 1)

\* C17: through the HID calls of a macro's press or release and of the
\* NeoKey button handling, at most one consumer code is asserted at any
\* point, and every consumer_control.press comes right after a
\* consumer_control.release.
C17_ConsumerExclusive ==
    \A n \in 1..Len(power_log.hid) :
        /\ Cardinality(Asserted(n)) <= 1
        /\ power_log.hid[n].call = "consumer_control.press" =>
              /\ n > 1
              /\ power_log.hid[n - 1].call = "consumer_control.release"

\* NeoKey buttons 1 and 3 went down together: two consumer codes were
\* pressed in one call, each after a release
C17_Witness ==
    /\ power_log.by = "neokey"
    /\ \E i, j \in 1..Len(power_log.hid) :
          /\ i < j
          /\ power_log.hid[i] =
                [call |-> "consumer_control.press",
                 code |-> ConsumerControlCode_VOLUME_INCREMENT]
          /\ power_log.hid[j] =
                [call |-> "consumer_control.press",
                 code |-> ConsumerControlCode_PLAY_PAUSE]
    /\ macropad.consumer = 0

\* the places of the log where a method was called
Calls(method) ==
    { n \in 1..Len(power_log.hid) : power_log.hid[n].call = method }

\* the macro is one batch of one consumer code to press
SingleCodeBatch ==
    /\ Len(TestSequence) = 1
    /\ TestSequence[1].type = "list"
    /\ Len(TestSequence[1].codes) = 1
    /\ TestSequence[1].codes[1].type = "int"
    /\ TestSequence[1].codes[1].n > 0

\* C18: for a macro that is one batch of one consumer code c, the press
\* makes exactly one consumer_control.press, with c, and no keyboard.press;
\* the release makes exactly one consumer_control.release and no keyboard
\* release.
C18_SingleBatchCalls ==
    SingleCodeBatch =>
        /\ power_log.by = "press" =>
              /\ Cardinality(Calls("consumer_control.press")) = 1
              /\ \A n \in Calls("consumer_control.press") :
                    power_log.hid[n].code = TestSequence[1].codes[1].n
              /\ Calls("keyboard.press") = {}
        /\ power_log.by = "release" =>
              /\ Cardinality(Calls("consumer_control.release")) = 1
              /\ Calls("keyboard.release") = {}
              /\ Calls("keyboard.release_all") = {}

\* the release of the macro [[PLAY_PAUSE]] has run and made the one call
C18_Witness ==
    /\ TestSequence = <<ListItem(<<IntItem(ConsumerControlCode_PLAY_PAUSE)>>)>>
    /\ power_log.by = "release"
    /\ power_log.hid = <<[call |-> "consumer_control.release", code |-> 0]>>
    /\ macropad.consumer = 0

(***************************************************************************)
(* Claims about the start of the program, checked under Spec.              *)
(***************************************************************************)
\* C19: with no app loaded the title reads NO MACRO FILES and the program
\* never enters the main loop: no HID call is made, no app is switched to,
\* no macro runs, the Debouncers see no update, and every key event made
\* stays in the queue.
C19_NoAppsHalts ==
    apps = <<>> =>
        /\ pc = "halt"
        /\ title = [text |-> "NO MACRO FILES", marker |-> FALSE]
        /\ macropad = MacroPad_init
        /\ app_index = 0
        /\ last_position = <<>>
        /\ pending = NoPending
        /\ held = NoneHeld
        /\ ran = NoRun
        /\ activity_time = BootTime
        /\ neokey_debouncers = [i \in 0..(NEOKEY1X4_NUM_KEYS - 1) |-> Debouncer_init]
        /\ nk.last_reconnect = 0
        /\ Len(events) = 2 * presses - Cardinality(keys_down)

\* no app was loaded; the dial has been turned and pushed, a key pressed
\* and a sleep timeout has passed
C19_Witness ==
    /\ apps = <<>>
    /\ pc = "halt"
    /\ encoder # 0
    /\ encoder_switch # last_encoder_switch
    /\ events # <<>>
    /\ now >= BootTime + SLEEP_TIME

(***************************************************************************)
(* A further claim about the macro interpreter, checked under SpecMacro.   *)
(***************************************************************************)
\* the macro is one batch of one negative consumer code
NegativeCodeBatch ==
    /\ Len(TestSequence) = 1
    /\ TestSequence[1].type = "list"
    /\ Len(TestSequence[1].codes) = 1
    /\ TestSequence[1].codes[1].type = "int"
    /\ TestSequence[1].codes[1].n < 0

\* C20 as stated: the press of a macro that is one batch of one negative
\* consumer code makes a consumer_control.release and no
\* consumer_control.press.
C20_Original ==
    (NegativeCodeBatch /\ power_log.by = "press") =>
        /\ Calls("consumer_control.release") # {}
        /\ Calls("consumer_control.press") = {}

(***************************************************************************)
(* Claims about the release phase of the interpreter, checked under        *)
(* SpecMacro.                                                              *)
(***************************************************************************)
\* a non-negative integer item: a key code to press
IsKeyPress(item) == item.type = "int" /\ item.n >= 0
IsKeyboardRelease(entry) == entry.call = "keyboard.release"

\* the calls a release of the sequence may make, and those it must make:
\* one keyboard.release for each key code to press, in the order of the
\* sequence, nothing that presses, types or starts anything, and one
\* consumer_control.release, the last call of all
ReleaseEffect(hid) ==
    LET keypresses == SelectSeq(TestSequence, IsKeyPress)
        releases == SelectSeq(hid, IsKeyboardRelease)
        consumer == { n \in 1..Len(hid) :
                        hid[n].call = "consumer_control.release" }
    IN  /\ releases = [n \in 1..Len(keypresses) |->
                          [call |-> "keyboard.release",
                           code |-> keypresses[n].n]]
        /\ \A n \in 1..Len(hid) :
              hid[n].call \in {"keyboard.release", "mouse.release",
                               "stop_tone", "consumer_control.release"}
        /\ consumer = {Len(hid)}

\* C21: the release of a macro makes one keyboard.release for each
\* non-negative integer item, in order, and none for a negative integer, a
\* delay, a string, a batch of consumer codes or a special command; it
\* makes no call that presses or types, lets no time pass and leaves the
\* brightness as the press left it; its last call, and only that one, is
\* consumer_control.release.
C21_ReleasePhaseEffect ==
    [][(ran.pressed /\ ~ran'.pressed) =>
          /\ ReleaseEffect(power_log'.hid)
          /\ now' = now
          /\ display_manager' = display_manager
          /\ macropad'.pixels_brightness = macropad.pixels_brightness
          /\ power_log'.ops = power_log.ops]_vars

\* the release of a macro that presses S and raises the brightness has
\* run: S is let go and the brightness is one step above the initial one
C21_Witness ==
    /\ TestSequence = <<IntItem(Keycode_S),
                        CommandItem(<<"increase", "brightness">>)>>
    /\ power_log.by = "release"
    /\ power_log.hid = <<[call |-> "keyboard.release", code |-> Keycode_S],
                         [call |-> "consumer_control.release", code |-> 0]>>
    /\ power_log.ops = <<"adjust">>
    /\ display_manager.brightness # F_0_1

\* the items of the sequence that are dicts with the key
Carrying(key) ==
    { n \in 1..Len(TestSequence) :
        /\ TestSequence[n].type = "dict"
        /\ key \in TestSequence[n].dict.has }

\* C22 as stated: the release of a macro makes a mouse.release of the mask
\* for every dict item with a non-negative "buttons" and a stop_tone for
\* every dict item with a "tone", an item with both keys included.
C22_Original ==
    power_log.by = "release" =>
        /\ \A n \in Carrying("buttons") :
              TestSequence[n].dict.buttons >= 0 =>
                 \E c \in Calls("mouse.release") :
                    power_log.hid[c].code = TestSequence[n].dict.buttons
        /\ Cardinality(Calls("stop_tone")) = Cardinality(Carrying("tone"))

(***************************************************************************)
(* A further claim about the DisplayManager, checked under SpecPower.      *)
(***************************************************************************)
\* C23 as stated: when a wake is the change that follows a sleep, the
\* brightness of the NeoKey's pixels is the one they had just before that
\* sleep, as the brightness of the MacroPad's pixels is.
C23_Original ==
    power_log.ops = <<"sleep", "wake">> =>
        /\ nk.device.brightness = power_log.before_sleep.neokey
        /\ macropad.pixels_brightness = power_log.before_sleep.pixels

(***************************************************************************)
(* A claim about the key index of the macro that is run, checked under     *)
(* SpecShort.                                                              *)
(***************************************************************************)
\* the number of macros of the app that is active
ActiveMacros == Len(apps[app_index + 1].macros)

\* C24: execute_macro_sequence is entered only with a key index below the
\* number of macros of the active app.  A grid key event whose index is
\* not below it is taken off the queue and dropped; a change of the
\* encoder button on an app with fewer than 13 macros wakes the display
\* and runs nothing, and on an app with 13 macros it runs as key 12.
C24_KeyIndexInRange ==
    [][/\ pc' = "execute" =>
             /\ pending'.key_number >= 0
             /\ pending'.key_number < Len(apps'[app_index' + 1].macros)
       /\ (/\ pc = "event"
           /\ events # <<>>
           /\ Head(events).key_number >= ActiveMacros) =>
             /\ pc' = "neokey"
             /\ events' = Tail(events)
             /\ UNCHANGED <<macropad, display_manager, ran, held>>
       /\ (pc = "switch" /\ encoder_switch # last_encoder_switch) =>
             /\ ~display_manager'.is_asleep
             /\ activity_time' = now
             /\ IF ActiveMacros < 13
                THEN /\ pc' = "neokey"
                     /\ UNCHANGED <<ran, held>>
                     /\ macropad'.keyboard = macropad.keyboard
                ELSE /\ pc' = "execute"
                     /\ pending' = [key_number |-> 12,
                                    pressed |-> encoder_switch]]_vars

\* on the app with one macro the press of grid key 1 was dropped and a
\* push of the encoder button woke the sleeping display: nothing has run
C24_Witness ==
    /\ apps[app_index + 1] = App_Short
    /\ keys_down = {1}
    /\ events = <<>>
    /\ encoder_switch = last_encoder_switch
    /\ held = NoneHeld
    /\ macropad.keyboard = {}
    /\ encoder = 0
    /\ activity_time = BootTime + SLEEP_TIME
    /\ ~display_manager.is_asleep
    /\ pc = "neokey"

(***************************************************************************)
(* A claim about the marker on the title, checked under SpecBus.           *)
(***************************************************************************)
\* C25: right after the marker step of an iteration (lines 650-656) the
\* title carries the marker exactly when the NeoKeyManager is not
\* connected, whatever disconnections, reconnections and app switches
\* came before.
C25_MarkerIffDisconnected ==
    pc = "encoder" => (title.marker <=> ~nk.is_connected)

\* the dial has switched the app, which set the title to the bare name of
\* Configuration; the NeoKey is disconnected and the marker step has put
\* the marker on the new name
C25_Witness ==
    /\ pc = "encoder"
    /\ ~nk.is_connected
    /\ encoder = 1
    /\ last_position = <<1>>
    /\ title = [text |-> App_Configuration.name, marker |-> TRUE]

(***************************************************************************)
(* A further claim about the NeoKeyManager, checked under SpecWrites.      *)
(***************************************************************************)
\* C26: a call of set_pixel or set_brightness leaves is_connected and
\* _failed_reads as they were, raises nothing and attempts no connection;
\* entered disconnected it leaves the device untouched, and entered
\* connected with a write that fails it leaves the manager connected.  The
\* manager goes from connected to disconnected only in a get_keys call
\* whose read fails.
C26_WritesKeepConnection ==
    [][/\ (/\ call'.op \in {"set_pixel", "set_brightness"}
           /\ <<call, nk>>' # <<call, nk>>) =>
             /\ nk'.is_connected = nk.is_connected
             /\ nk'.failed_reads = nk.failed_reads
             /\ nk'.last_reconnect = nk.last_reconnect
             /\ connects' = connects
             /\ ~raised'
             /\ ~nk.is_connected => nk'.device = nk.device
             /\ call'.res # "ok" => nk'.device = nk.device
       /\ (nk.is_connected /\ ~nk'.is_connected) =>
             /\ call'.op = "get_keys"
             /\ call'.res # "ok"]_vars

\* a set_brightness call made after two failed reads had its write fail:
\* the manager is still connected with two failures counted, and the new
\* brightness is stored though the device does not have it
C26_Witness ==
    /\ call.op = "set_brightness"
    /\ call.res # "ok"
    /\ call.entry.is_connected
    /\ call.entry.failed_reads = 2
    /\ nk.is_connected
    /\ nk.failed_reads = 2
    /\ nk.brightness # nk.device.brightness

(***************************************************************************)
(* A claim about reconnection in the long run, checked under SpecRetry.    *)
(***************************************************************************)
\* the last moment the clock reaches
LastMoment == BootTime + NEOKEY_RECONNECT_INTERVAL * MaxIdle
\* the attempt recorded in _last_reconnect can be followed by another one
\* before the clock stops
AttemptToCome == nk.last_reconnect + NEOKEY_RECONNECT_INTERVAL <= LastMoment

\* C27: while the manager is not connected and the loop runs with the
\* clock moving, connection attempts go on being made, however many have
\* failed, until the manager is connected or the last attempt the clock
\* allows has been made; and from the moment the NeoKey answers, with an
\* attempt still to come, the manager gets connected unless the NeoKey
\* stops answering.
C27_RetriesForever ==
    /\ (~nk.is_connected /\ AttemptToCome)
          ~> (nk.is_connected \/ ~AttemptToCome)
    /\ (~nk.is_connected /\ busUp /\ AttemptToCome)
          ~> (nk.is_connected \/ ~busUp)

\* two attempts have failed, one interval apart, and the third, another
\* interval later, has connected
C27_Witness ==
    /\ nk.is_connected
    /\ nk.failed_reads = 0
    /\ nk.last_reconnect = BootTime + 2 * NEOKEY_RECONNECT_INTERVAL
    /\ now = nk.last_reconnect
    /\ pc = "sleep"

(***************************************************************************)
(* A claim about items of other shapes, checked under SpecOther.           *)
(***************************************************************************)
\* an item of one of the shapes the interpreter is written for
IsInstruction(item) ==
    \/ item.type \in {"int", "float", "str", "list"}
    \/ /\ item.type = "dict"
       /\ item.dict.has \cap {"test_string", "buttons", "tone"} # {}
       /\ "test_string" \in item.dict.has => item.dict.types.test_string = "str"
       /\ "buttons" \in item.dict.has => item.dict.types.buttons = "int"

\* the HID calls the phase makes on the sequence without its other items
CallsWithoutOthers(pressed) ==
    execute_macro_sequence(Quiet, "ok", SelectSeq(TestSequence, IsInstruction),
                           pressed, 0).log.hid

\* C28 as stated: an item of an unknown or malformed shape is passed over
\* in both phases: no exception is raised, and the HID calls made are
\* those of the sequence without such items, those of the items after it
\* included.
C28_Original ==
    power_log.by \in {"press", "release"} =>
        /\ ~raised
        /\ power_log.hid = CallsWithoutOthers(power_log.by = "press")

(***************************************************************************)
(* A claim about NeoKey buttons that stay down, checked under SpecHeld.    *)
(***************************************************************************)
\* the calls that pressed a code, over all polls
Pressed(code) ==
    { n \in 1..Len(power_log.hid) :
        /\ power_log.hid[n].call \in {"keyboard.press", "consumer_control.press"}
        /\ power_log.hid[n].code = code }

\* C29 as stated: a NeoKey button that goes down and stays down has its
\* code pressed exactly once, whatever reads fail and whatever
\* disconnection and reconnection happen while it is down.
C29_Original ==
    \A i \in 1..NEOKEY1X4_NUM_KEYS :
        /\ Cardinality(Pressed(key_mapping[i])) <= 1
        /\ (neokey_held[i] /\ neokey_debouncers[i - 1].state) =>
              Cardinality(Pressed(key_mapping[i])) = 1

=============================================================================
